---------------------------- MODULE Spec2Model ----------------------------
(***************************************************************************)
(* Model of the translation workflow of firstsession: the LangGraph graph  *)
(* of translate_graph.py, its nine nodes and the service layer.            *)
(*                                                                         *)
(* A string of the program is a sequence of atoms.  An atom [k, n] is a    *)
(* run of n characters of lexical kind k: "sp" (spaces/tabs), "nl"         *)
(* (newlines), "plain" (letters matching no pattern), one kind per regular *)
(* expression of SafeguardClassifyNode, and one kind per word or           *)
(* punctuation mark of a capability response.  Python's None is the value  *)
(* None for text-typed fields and NoneStr for the enumerated ones; a key   *)
(* missing from the state record is a key outside DOMAIN state.            *)
(***************************************************************************)
EXTENDS Integers, Sequences, FiniteSets, TLC

VARIABLES
    state,      \* the state record handed from node to node (mutated in place)
    is_dict,    \* isinstance(state, dict)
    pc,         \* the node the graph executes next, "__end__" or "__raised__"
    initial,    \* the record the caller passed to TranslateGraph.run
    trace,      \* the nodes executed so far, in order
    calls,      \* the capability (self._llm.invoke) calls made so far, in order
    last_resp,  \* what the capability answered to the node that ran last
    request,    \* the TranslationRequest, when the service layer started the run
    response,   \* the TranslationResponse built by TranslationService.translate
    instances,  \* the attributes of the node objects the compiled graph holds
    runs        \* the runs that share the compiled graph, when there are several

vars == <<state, is_dict, pc, initial, trace, calls, last_resp, request, response,
          instances, runs>>

-----------------------------------------------------------------------------
(* Bounds of the model *)

\* largest max_retry_count a caller supplies
MaxRetry == 2

-----------------------------------------------------------------------------
(* Strings as sequences of atoms *)

A(kind, len) == [k |-> kind, n |-> len]

None == << A("None", 0) >>
NoneStr == "None"

Space == {"sp", "nl"}

IsSpace(a) == a.k \in Space

RECURSIVE lstrip(_)
lstrip(s) == IF s # << >> /\ IsSpace(Head(s)) THEN lstrip(Tail(s)) ELSE s

RECURSIVE rstrip(_)
rstrip(s) ==
    IF s # << >> /\ IsSpace(s[Len(s)]) THEN rstrip(SubSeq(s, 1, Len(s) - 1)) ELSE s

\* str.strip()
strip(s) == rstrip(lstrip(s))

\* x or ""
or_empty(x) == IF x = None THEN << >> ELSE x

RECURSIVE len(_)
len(s) == IF s = << >> THEN 0 ELSE Head(s).n + len(Tail(s))

\* s[:m]
RECURSIVE prefix(_, _)
prefix(s, m) ==
    IF s = << >> \/ m <= 0 THEN << >>
    ELSE IF Head(s).n <= m THEN << Head(s) >> \o prefix(Tail(s), m - Head(s).n)
    ELSE << A(IF Head(s).k \in Space \cup {"plain"} THEN Head(s).k ELSE "frag", m) >>

RECURSIVE take_word(_)
take_word(s) ==
    IF s = << >> \/ IsSpace(Head(s)) THEN << >>
    ELSE << Head(s) >> \o take_word(Tail(s))

\* s.split()[0] if s else ""
first_token(s) == take_word(lstrip(s))

RECURSIVE remove_kind(_, _)
remove_kind(s, kind) ==
    IF s = << >> THEN << >>
    ELSE (IF Head(s).k = kind THEN << >> ELSE << Head(s) >>) \o remove_kind(Tail(s), kind)

\* str.upper() on the words a capability answers with
upper_kind(kind) ==
    CASE kind = "pass" -> "PASS"
      [] kind = "pii" -> "PII"
      [] kind = "harmful" -> "HARMFUL"
      [] kind = "prompt_injection" -> "PROMPT_INJECTION"
      [] kind = "yes" -> "YES"
      [] kind = "no" -> "NO"
      [] kind = "label" -> "LABEL"
      [] kind = "answer" -> "ANSWER"
      [] kind = "because" -> "BECAUSE"
      [] OTHER -> kind

upper(s) == [i \in 1..Len(s) |-> A(upper_kind(s[i].k), s[i].n)]

\* re.sub(r"^(W1|W2|...)\s*:\s*", "", s) for the words in `words`
strip_prefix(s, words) ==
    IF s # << >> /\ Head(s).k \in words
    THEN LET r == lstrip(Tail(s))
         IN  IF r # << >> /\ Head(r).k = ":" THEN lstrip(Tail(r)) ELSE s
    ELSE s

-----------------------------------------------------------------------------
(* The state record: a mapping from the keys present to their values *)

\* _get(state, key, default)
Get(s, key, default) == IF key \in DOMAIN s THEN s[key] ELSE default

\* _set(state, key, value)
Set(s, key, value) ==
    [x \in DOMAIN s \cup {key} |-> IF x = key THEN value ELSE s[x]]

\* a run of _set calls: every key of g is written into s
Merge(f, g) == [x \in DOMAIN f \cup DOMAIN g |-> IF x \in DOMAIN g THEN g[x] ELSE f[x]]

\* state.pop(k) for every key outside keep
Prune(s, keep) == [x \in DOMAIN s \cap keep |-> s[x]]

-----------------------------------------------------------------------------
(* The Generative Capability: self._llm.invoke and _extract_text *)

\* the call raised instead of returning
Raised == << A("exception", 0) >>

W(kind) == << A(kind, 1) >>

\* answers to the language-detection prompt
DetectResponses ==
    { W("json_language_ko"),
      W("fence_json") \o W("json_language_KR") \o W("fence"),
      W("json_language_k0"),
      W("json_language_null"),
      W("because"),
      Raised }

\* answers to the classification prompt
ClassifyResponses ==
    { W("PASS"), W("PII"), W("HARMFUL"), W("PROMPT_INJECTION"),
      W("harmful"),
      W("label") \o W(":") \o W("sp") \o W("harmful"),
      W("HARMFUL") \o W("sp") \o W("because"),
      W("HARMFUL") \o W("."),
      W("backtick") \o W("PII") \o W("backtick"),
      W("nl") \o W("pii") \o W("nl"),
      W("because"),
      << >>,
      Raised }

\* answers to the translation prompt
TranslateResponses ==
    { << A("tr1", 4) >>,
      W("fence") \o << A("tr1", 4) >> \o W("fence"),
      W("dq") \o << A("tr1", 4) >> \o W("dq"),
      W("sp"),
      << >>,
      Raised }

\* answers to the fix-this-translation prompt
RetryResponses ==
    { << A("tr2", 4) >>,
      W("sq") \o << A("tr2", 4) >> \o W("sq"),
      << A("tr1", 4) >>,
      << >>,
      Raised }

\* answers to the quality-judgment prompt
JudgeResponses ==
    { W("YES"), W("NO"), W("yes"),
      W("fence") \o W("YES") \o W("fence"),
      W("answer") \o W(":") \o W("sp") \o W("YES"),
      W("YES") \o W("."),
      W("because"),
      << >>,
      Raised }

-----------------------------------------------------------------------------
(* NormalizeInputNode *)

MAX_TEXT_CHARS == 10000

\* adjacent runs of the same whitespace kind are one run
RECURSIVE merge_runs(_)
merge_runs(s) ==
    IF Len(s) < 2 THEN s
    ELSE IF IsSpace(s[1]) /\ s[1].k = s[2].k
         THEN merge_runs(<< A(s[1].k, s[1].n + s[2].n) >> \o SubSeq(s, 3, Len(s)))
         ELSE << s[1] >> \o merge_runs(Tail(s))

\* _RE_MULTI_SPACE.sub(" ", text)
RE_MULTI_SPACE_sub(s) ==
    LET m == merge_runs(s)
    IN  [i \in 1..Len(m) |-> IF m[i].k = "sp" THEN A("sp", 1) ELSE m[i]]

\* _RE_MULTI_NEWLINE.sub("\n\n", text)
RE_MULTI_NEWLINE_sub(s) ==
    LET m == merge_runs(s)
    IN  [i \in 1..Len(m) |-> IF m[i].k = "nl" /\ m[i].n >= 3 THEN A("nl", 2) ELSE m[i]]

\* lang.strip().lower()
strip_lower(lang) ==
    CASE lang = "KR" -> "kr"
      [] lang = " EN-us " -> "en-us"
      [] lang = "ZH-CN" -> "zh-cn"
      [] OTHER -> lang

\* self._LANG_ALIAS.get(lang, lang)
LANG_ALIAS(lang) ==
    CASE lang = "kr" -> "ko"
      [] lang = "kor" -> "ko"
      [] lang = "ko-kr" -> "ko"
      [] lang = "en-us" -> "en"
      [] lang = "en-uk" -> "en"
      [] lang = "jp" -> "ja"
      [] lang = "zh-cn" -> "zh-Hans"
      [] lang = "zh-tw" -> "zh-Hant"
      [] OTHER -> lang

\* re.fullmatch(r"[a-z]{2,3}(?:-[A-Za-z]{2,8})?", lang), on the codes of the model
canonical_shape(lang) == lang \in {"ko", "en", "ja", "fr", "zh-Hans", "zh-Hant", "en-gb"}

\* a plausible slip: the shape of the code is not validated
normalize_lang_code_unvalidated(lang) ==
    IF lang = NoneStr \/ lang = "" THEN NoneStr
    ELSE LANG_ALIAS(strip_lower(lang))

normalize_lang_code(lang) ==
    IF lang = NoneStr \/ lang = "" THEN NoneStr
    ELSE LET l == LANG_ALIAS(strip_lower(lang))
         IN  IF canonical_shape(l) THEN l ELSE NoneStr

\* json.loads(content).get("language"); NoneStr where either raises
json_language(content) ==
    IF Len(content) # 1 THEN NoneStr
    ELSE CASE content[1].k = "json_language_ko" -> "ko"
           [] content[1].k = "json_language_KR" -> "KR"
           [] content[1].k = "json_language_k0" -> "k0"
           [] OTHER -> NoneStr

\* _detect_language with the capability's outcome resp
detect_language(resp) ==
    IF resp = Raised THEN NoneStr
    ELSE LET content == strip(remove_kind(remove_kind(strip(resp), "fence_json"), "fence"))
         IN  normalize_lang_code(json_language(content))

normalized_text(s) ==
    LET text == RE_MULTI_NEWLINE_sub(RE_MULTI_SPACE_sub(strip(or_empty(Get(s, "text", << >>)))))
    IN  IF len(text) > MAX_TEXT_CHARS THEN prefix(text, MAX_TEXT_CHARS) ELSE text

\* a plausible slip: the length is tested before the whitespace is normalized
normalize_truncates_raw(s) == len(or_empty(Get(s, "text", << >>))) > MAX_TEXT_CHARS

normalize_truncates(s) ==
    len(RE_MULTI_NEWLINE_sub(RE_MULTI_SPACE_sub(strip(or_empty(Get(s, "text", << >>))))))
        > MAX_TEXT_CHARS

\* whether run() reaches self._detect_language(text)
normalize_detects(s) ==
    /\ normalize_lang_code(Get(s, "source_language", NoneStr)) = NoneStr
    /\ normalized_text(s) # << >>

NormalizeInputNode_run(s, resp) ==
    LET src0 == normalize_lang_code(Get(s, "source_language", NoneStr))
        detected == IF normalize_detects(s) THEN detect_language(resp) ELSE NoneStr
        warned == IF normalize_truncates(s)
                  THEN Set(s, "warning_message", "Input text truncated by max length rule.")
                  ELSE s
    IN  Merge(warned,
              [text |-> normalized_text(s),
               source_language |-> IF detected # NoneStr THEN detected ELSE src0,
               target_language |-> normalize_lang_code(Get(s, "target_language", NoneStr))])

-----------------------------------------------------------------------------
(* SafeguardClassifyNode *)

\* \b on both sides of atom i: no word character touches it
word_bounded(t, i) ==
    /\ (i = 1 \/ IsSpace(t[i - 1]))
    /\ (i = Len(t) \/ IsSpace(t[i + 1]))

RE_PROMPT_INJECTION_search(t) == \E i \in 1..Len(t) : t[i].k = "inj"

RE_RRN_search(t) == \E i \in 1..Len(t) : t[i].k = "rrn" /\ word_bounded(t, i)

RE_EMAIL_search(t) == \E i \in 1..Len(t) : t[i].k = "email" /\ word_bounded(t, i)

RE_PHONE_KR_search(t) == \E i \in 1..Len(t) : t[i].k = "phone" /\ word_bounded(t, i)

RE_PROFANITY_search(t) == \E i \in 1..Len(t) : t[i].k = "prof"

RE_PII_HINT_search(t) ==
    \E i \in 1..Len(t) : t[i].k \in {"rrn", "email", "phone"} /\ word_bounded(t, i)

RE_HARMFUL_HINT_search(t) == \E i \in 1..Len(t) : t[i].k = "harm"

ALLOWED == {"PASS", "PII", "HARMFUL", "PROMPT_INJECTION"}

\* a plausible slip: the harmful patterns are tried before the injection pattern
rule_based_label_harmful_first(text, sensitive_hint) ==
    IF RE_PROFANITY_search(text) THEN "HARMFUL"
    ELSE IF RE_HARMFUL_HINT_search(text) THEN "HARMFUL"
    ELSE IF RE_PROMPT_INJECTION_search(text) THEN "PROMPT_INJECTION"
    ELSE IF sensitive_hint \/ RE_PII_HINT_search(text) THEN "PII"
    ELSE NoneStr

rule_based_label(text, sensitive_hint) ==
    IF RE_PROMPT_INJECTION_search(text) THEN "PROMPT_INJECTION"
    ELSE IF RE_PROFANITY_search(text) THEN "HARMFUL"
    ELSE IF RE_HARMFUL_HINT_search(text) THEN "HARMFUL"
    ELSE IF sensitive_hint \/ RE_PII_HINT_search(text) THEN "PII"
    ELSE NoneStr

\* the first whitespace-delimited token of the upper-cased, prefix-stripped answer
label_token(raw) == first_token(strip(strip_prefix(strip(upper(raw)), {"LABEL"})))

\* a plausible slip: the fallback argument is ignored
normalize_label_pass_only(raw, fallback) ==
    LET first == label_token(raw)
    IN  IF Len(first) = 1 /\ first[1].k \in ALLOWED THEN first[1].k ELSE "PASS"

normalize_label(raw, fallback) ==
    LET first == label_token(raw)
    IN  IF Len(first) = 1 /\ first[1].k \in ALLOWED THEN first[1].k
        ELSE IF fallback \in ALLOWED THEN fallback
        ELSE "PASS"

\* a plausible slip: the phone pattern is left out of the forced check
forced_pii_no_phone(text) == RE_RRN_search(text) \/ RE_EMAIL_search(text)

forced_pii(text) ==
    RE_RRN_search(text) \/ RE_EMAIL_search(text) \/ RE_PHONE_KR_search(text)

classify_text(s) == or_empty(Get(s, "text", << >>))

classify_hint(s) == Get(s, "has_sensitive_hint", FALSE)

\* whether run() reaches self._llm_classify
classify_invokes(s) ==
    /\ strip(classify_text(s)) # << >>
    /\ ~forced_pii(classify_text(s))
    /\ rule_based_label(classify_text(s), classify_hint(s))
           \notin {"PROMPT_INJECTION", "HARMFUL"}

\* a plausible slip: the first token of the answer is stored without validation
SafeguardClassifyNode_run_unvalidated(s, resp) ==
    LET text == classify_text(s)
        rule_label == rule_based_label(text, classify_hint(s))
        first == label_token(strip(resp))
    IN  IF strip(text) = << >> THEN Set(s, "safeguard_label", "PASS")
        ELSE IF forced_pii(text) THEN Set(s, "safeguard_label", "PII")
        ELSE IF rule_label \in {"PROMPT_INJECTION", "HARMFUL"}
             THEN Set(s, "safeguard_label", rule_label)
        ELSE Set(s, "safeguard_label", IF first = << >> THEN "" ELSE first[1].k)

SafeguardClassifyNode_run(s, resp) ==
    LET text == classify_text(s)
        rule_label == rule_based_label(text, classify_hint(s))
    IN  IF strip(text) = << >> THEN Set(s, "safeguard_label", "PASS")
        ELSE IF forced_pii(text) THEN Set(s, "safeguard_label", "PII")
        ELSE IF rule_label \in {"PROMPT_INJECTION", "HARMFUL"}
             THEN Set(s, "safeguard_label", rule_label)
        ELSE Set(s, "safeguard_label",
                 normalize_label(strip(resp),
                                 IF rule_label # NoneStr THEN rule_label ELSE "PASS"))

-----------------------------------------------------------------------------
(* SafeguardDecisionNode, SafeguardFailResponseNode *)

\* SafeguardMessage.<label>.value, GENERAL for any other label
SafeguardMessage(label) ==
    CASE label = "PII" -> << A("message_PII", 20) >>
      [] label = "HARMFUL" -> << A("message_HARMFUL", 20) >>
      [] label = "PROMPT_INJECTION" -> << A("message_PROMPT_INJECTION", 20) >>
      [] OTHER -> << A("message_GENERAL", 20) >>

\* x or default, for the enumerated fields
or_str(x, default) == IF x = NoneStr \/ x = "" THEN default ELSE x

\* bool(x) of a text-typed value
truthy(x) == x # None /\ x # << >>

\* a plausible slip: a passed run keeps the error_message it arrived with
SafeguardDecisionNode_run_keeps_error(s) ==
    LET label == or_str(Get(s, "safeguard_label", NoneStr), "PASS")
    IN  IF label = "PASS"
        THEN Set(s, "safeguard_passed", TRUE)
        ELSE Merge(s, [safeguard_passed |-> FALSE, error_message |-> SafeguardMessage(label)])

SafeguardDecisionNode_run(s) ==
    LET label == or_str(Get(s, "safeguard_label", NoneStr), "PASS")
    IN  IF label = "PASS"
        THEN Merge(s, [safeguard_passed |-> TRUE, error_message |-> None])
        ELSE Merge(s, [safeguard_passed |-> FALSE, error_message |-> SafeguardMessage(label)])

\* the key _set_if_exists(state, keys, value) writes
set_if_exists_key(s, dict, keys) ==
    IF dict \/ ~(\E i \in 1..Len(keys) : keys[i] \in DOMAIN s) THEN keys[1]
    ELSE keys[CHOOSE j \in 1..Len(keys) :
                  /\ keys[j] \in DOMAIN s
                  /\ \A h \in 1..(j - 1) : keys[h] \notin DOMAIN s]

\* a plausible slip: the audit entry carries the text it is about
SafeguardFailResponseNode_run_logs_text(s, dict) ==
    LET label == or_str(Get(s, "safeguard_label", NoneStr), "UNKNOWN")
        passed == Get(s, "safeguard_passed", FALSE)
        msg0 == Get(s, "error_message", None)
        k_text == set_if_exists_key(s, dict,
                      <<"translated_text", "result_text", "output_text", "response_text">>)
        k_status == set_if_exists_key(s, dict, <<"status", "result_status">>)
        k_reason == set_if_exists_key(s, dict, <<"blocked_reason", "safeguard_reason">>)
        k_audit == set_if_exists_key(s, dict, <<"audit_log", "logs", "safeguard_log">>)
    IN  IF passed \/ label = "PASS" THEN s
        ELSE Merge(s, [x \in {k_text, k_status, k_reason, k_audit} |->
                 IF x = k_text THEN (IF truthy(msg0) THEN msg0 ELSE SafeguardMessage(label))
                 ELSE IF x = k_status THEN "BLOCKED"
                 ELSE IF x = k_reason THEN label
                 ELSE [event |-> "SAFEGUARD_BLOCK", label |-> label,
                       text_len |-> len(or_empty(Get(s, "text", << >>))),
                       text |-> or_empty(Get(s, "text", << >>))]])

SafeguardFailResponseNode_run(s, dict) ==
    LET label == or_str(Get(s, "safeguard_label", NoneStr), "UNKNOWN")
        passed == Get(s, "safeguard_passed", FALSE)
        msg0 == Get(s, "error_message", None)
        k_text == set_if_exists_key(s, dict,
                      <<"translated_text", "result_text", "output_text", "response_text">>)
        k_status == set_if_exists_key(s, dict, <<"status", "result_status">>)
        k_reason == set_if_exists_key(s, dict, <<"blocked_reason", "safeguard_reason">>)
        k_audit == set_if_exists_key(s, dict, <<"audit_log", "logs", "safeguard_log">>)
    IN  IF passed \/ label = "PASS" THEN s
        ELSE Merge(s, [x \in {k_text, k_status, k_reason, k_audit} |->
                 IF x = k_text THEN (IF truthy(msg0) THEN msg0 ELSE SafeguardMessage(label))
                 ELSE IF x = k_status THEN "BLOCKED"
                 ELSE IF x = k_reason THEN label
                 ELSE [event |-> "SAFEGUARD_BLOCK", label |-> label,
                       text_len |-> len(or_empty(Get(s, "text", << >>)))]])

-----------------------------------------------------------------------------
(* TranslateNode, RetryTranslateNode *)

\* _strip_wrapping_quotes
strip_wrapping_quotes(s) ==
    IF len(s) >= 2 /\ s[1].k = s[Len(s)].k /\ s[1].k \in {"dq", "sq"}
    THEN strip(SubSeq(s, 2, Len(s) - 1))
    ELSE s

\* _translate_with_gemini / _retry_translate_with_gemini after self._llm.invoke
translate_with_gemini(resp) ==
    strip_wrapping_quotes(strip(remove_kind(strip(resp), "fence")))

\* whether a node with the empty-text guard reaches its capability call
text_is_empty(s) == strip(or_empty(Get(s, "text", << >>))) = << >>

\* a plausible slip: empty input returns without resetting translated_text
TranslateNode_run_keeps_stale(s, resp) ==
    IF text_is_empty(s) THEN s
    ELSE Merge(s, [translated_text |-> translate_with_gemini(resp),
                   last_translation |-> translate_with_gemini(resp)])

TranslateNode_run(s, resp) ==
    IF text_is_empty(s) THEN Set(s, "translated_text", << >>)
    ELSE Merge(s, [translated_text |-> translate_with_gemini(resp),
                   last_translation |-> translate_with_gemini(resp)])

\* a plausible slip: retry_count is not updated
RetryTranslateNode_run_no_count(s, resp) ==
    IF text_is_empty(s) THEN Set(s, "translated_text", << >>)
    ELSE Merge(s, [translated_text |-> translate_with_gemini(resp),
                   last_translation |-> translate_with_gemini(resp)])

RetryTranslateNode_run(s, resp) ==
    LET retry_count == Get(s, "retry_count", 0) + 1
    IN  IF text_is_empty(s)
        THEN Merge(s, [retry_count |-> retry_count, translated_text |-> << >>])
        ELSE Merge(s, [retry_count |-> retry_count,
                       translated_text |-> translate_with_gemini(resp),
                       last_translation |-> translate_with_gemini(resp)])

-----------------------------------------------------------------------------
(* QualityCheckNode *)

\* a plausible slip: a token that starts with an allowed word is accepted
normalize_yes_no_lenient(raw, fallback) ==
    LET s == strip(strip_prefix(strip(remove_kind(strip(upper(raw)), "fence")),
                                {"ANSWER", "LABEL"}))
    IN  IF Len(s) >= 1 /\ s[1].k \in {"YES", "NO"} THEN s[1].k ELSE fallback

normalize_yes_no(raw, fallback) ==
    LET s == strip(strip_prefix(strip(remove_kind(strip(upper(raw)), "fence")),
                                {"ANSWER", "LABEL"}))
        token == first_token(s)
    IN  IF Len(token) = 1 /\ token[1].k \in {"YES", "NO"} THEN token[1].k ELSE fallback

translation_is_empty(s) == strip(or_empty(Get(s, "translated_text", << >>))) = << >>

\* whether run() reaches self._judge_yes_no
quality_check_invokes(s) == ~text_is_empty(s) /\ ~translation_is_empty(s)

\* a plausible slip: the empty-translation guard is missing
QualityCheckNode_run_judges_empty(s, resp) ==
    IF text_is_empty(s) THEN Set(s, "qc_passed", "YES")
    ELSE LET yn == normalize_yes_no(strip(resp), "NO")
         IN  Merge(s, [qc_passed |-> yn,
                       qc_reason |-> IF yn = "YES" THEN NoneStr ELSE "qc_failed"])

QualityCheckNode_run(s, resp) ==
    IF text_is_empty(s) THEN Set(s, "qc_passed", "YES")
    ELSE IF translation_is_empty(s)
         THEN Merge(s, [qc_passed |-> "NO", qc_reason |-> "empty_translation"])
    ELSE LET yn == normalize_yes_no(strip(resp), "NO")
         IN  Merge(s, [qc_passed |-> yn,
                       qc_reason |-> IF yn = "YES" THEN NoneStr ELSE "qc_failed"])

-----------------------------------------------------------------------------
(* RetryGateNode, ResponseNode *)

\* a plausible slip: the default is used for the decision but not stored
RetryGateNode_run_default_not_stored(s) ==
    LET qc_passed == or_str(Get(s, "qc_passed", NoneStr), "NO")
        retry_count == Get(s, "retry_count", 0)
        max0 == Get(s, "max_retry_count", 0)
        max_retry_count == IF max0 <= 0 THEN 1 ELSE max0
    IN  IF qc_passed = "YES"
        THEN Merge(s, [retry_allowed |-> FALSE, retry_reason |-> NoneStr])
        ELSE IF retry_count < max_retry_count
             THEN Merge(s, [retry_allowed |-> TRUE,
                            retry_reason |-> "qc_failed_retry_available"])
             ELSE Merge(s, [retry_allowed |-> FALSE, retry_reason |-> "max_retry_reached"])

\* a plausible slip: a passed check leaves the reason of the round before
RetryGateNode_run_reason_kept(s) ==
    LET qc_passed == or_str(Get(s, "qc_passed", NoneStr), "NO")
        retry_count == Get(s, "retry_count", 0)
        max0 == Get(s, "max_retry_count", 0)
        max_retry_count == IF max0 <= 0 THEN 1 ELSE max0
        s1 == IF max0 <= 0 THEN Set(s, "max_retry_count", 1) ELSE s
    IN  IF qc_passed = "YES"
        THEN Set(s1, "retry_allowed", FALSE)
        ELSE IF retry_count < max_retry_count
             THEN Merge(s1, [retry_allowed |-> TRUE,
                             retry_reason |-> "qc_failed_retry_available"])
             ELSE Merge(s1, [retry_allowed |-> FALSE, retry_reason |-> "max_retry_reached"])

RetryGateNode_run(s) ==
    LET qc_passed == or_str(Get(s, "qc_passed", NoneStr), "NO")
        retry_count == Get(s, "retry_count", 0)
        max0 == Get(s, "max_retry_count", 0)
        max_retry_count == IF max0 <= 0 THEN 1 ELSE max0
        s1 == IF max0 <= 0 THEN Set(s, "max_retry_count", 1) ELSE s
    IN  IF qc_passed = "YES"
        THEN Merge(s1, [retry_allowed |-> FALSE, retry_reason |-> NoneStr])
        ELSE IF retry_count < max_retry_count
             THEN Merge(s1, [retry_allowed |-> TRUE,
                             retry_reason |-> "qc_failed_retry_available"])
             ELSE Merge(s1, [retry_allowed |-> FALSE, retry_reason |-> "max_retry_reached"])

KEEP == {"translated_text", "status", "success", "safeguard_label", "qc_passed", "retry_count"}

\* a plausible slip: a failed quality check is reported as an error
ResponseNode_run_fails_on_qc(s, dict) ==
    LET error_message == Get(s, "error_message", None)
        ok == Merge(s, [translated_text |-> or_empty(Get(s, "translated_text", << >>)),
                        status |-> "OK", success |-> TRUE])
    IN  IF truthy(error_message) \/ Get(s, "qc_passed", NoneStr) = "NO"
        THEN Merge(s, [translated_text |-> IF truthy(error_message) THEN error_message
                                           ELSE or_empty(Get(s, "translated_text", << >>)),
                       status |-> "ERROR", success |-> FALSE])
        ELSE IF dict THEN Prune(ok, KEEP) ELSE ok

ResponseNode_run(s, dict) ==
    LET error_message == Get(s, "error_message", None)
        ok == Merge(s, [translated_text |-> or_empty(Get(s, "translated_text", << >>)),
                        status |-> "OK", success |-> TRUE])
    IN  IF truthy(error_message)
        THEN Merge(s, [translated_text |-> error_message, status |-> "ERROR",
                       success |-> FALSE])
        ELSE IF dict THEN Prune(ok, KEEP) ELSE ok

-----------------------------------------------------------------------------
(* TranslateGraph: the routers of the conditional edges *)

\* a plausible slip: only the harmful labels are sent to the fail node
route_after_safeguard_pii_passes(s) ==
    IF or_str(Get(s, "safeguard_label", NoneStr), "PASS") \in {"PASS", "PII"}
    THEN "translate" ELSE "safeguard_fail"

route_after_safeguard(s) ==
    IF or_str(Get(s, "safeguard_label", NoneStr), "PASS") = "PASS"
    THEN "translate" ELSE "safeguard_fail"

\* a plausible slip: <= where the bound needs <
route_after_retry_gate_off_by_one(s) ==
    LET qc == or_str(Get(s, "qc_passed", NoneStr), "NO")
        retry_count == Get(s, "retry_count", 0)
        max0 == Get(s, "max_retry_count", 0)
        max_retry_count == IF max0 <= 0 THEN 1 ELSE max0
    IN  IF qc = "YES" THEN "response"
        ELSE IF retry_count <= max_retry_count THEN "retry_translate"
        ELSE "response"

\* a plausible slip: the budget is consulted before the verdict
route_after_retry_gate_budget_first(s) ==
    LET qc == or_str(Get(s, "qc_passed", NoneStr), "NO")
        retry_count == Get(s, "retry_count", 0)
        max0 == Get(s, "max_retry_count", 0)
        max_retry_count == IF max0 <= 0 THEN 1 ELSE max0
    IN  IF retry_count < max_retry_count THEN "retry_translate"
        ELSE "response"

route_after_retry_gate(s) ==
    LET qc == or_str(Get(s, "qc_passed", NoneStr), "NO")
        retry_count == Get(s, "retry_count", 0)
        max0 == Get(s, "max_retry_count", 0)
        max_retry_count == IF max0 <= 0 THEN 1 ELSE max0
    IN  IF qc = "YES" THEN "response"
        ELSE IF retry_count < max_retry_count THEN "retry_translate"
        ELSE "response"

-----------------------------------------------------------------------------
(* Inputs *)

Texts ==
    { << >>,
      << A("sp", 2), A("nl", 1) >>,
      << A("plain", 5) >>,
      << A("sp", 2), A("plain", 5), A("sp", 3), A("plain", 5), A("nl", 4),
         A("plain", 3), A("nl", 1) >>,
      << A("plain", MAX_TEXT_CHARS + 1) >>,
      << A("sp", 2), A("plain", MAX_TEXT_CHARS - 1) >>,
      << A("plain", MAX_TEXT_CHARS - 1), A("sp", 3), A("plain", 5) >>,
      << A("plain", 5), A("sp", 1), A("email", 16) >>,
      << A("rrn", 14) >>,
      << A("phone", 13) >>,
      << A("inj", 9) >>,
      << A("harm", 4) >>,
      << A("prof", 2) >>,
      << A("prof", 4) >>,
      << A("plain", 5), A("sp", 1), A("harm", 4), A("sp", 1), A("inj", 9) >>,
      << A("phone", 13), A("sp", 1), A("inj", 9), A("sp", 1), A("prof", 2),
         A("sp", 1), A("harm", 4) >> }

\* <<source_language, target_language>> of a caller
LangPairs ==
    { << NoneStr, "en" >>, << "KR", " EN-us " >>, << "k0", NoneStr >>, << "fr", "e_n" >> }

Empty == [x \in {} |-> 0]

\* retry_count and max_retry_count of a caller: both absent, or both given
Counters ==
    { Empty } \cup
    { [retry_count |-> r, max_retry_count |-> m] : r \in 0..1, m \in (-1)..MaxRetry }

Hints == { Empty, [has_sensitive_hint |-> TRUE] }

\* fields left over from an earlier use of the record
Stale ==
    [ translated_text |-> << A("stale", 5) >>,
      last_translation |-> << A("stale", 5) >>,
      error_message |-> << A("stale_error", 5) >>,
      safeguard_label |-> "HARMFUL",
      safeguard_passed |-> TRUE,
      qc_passed |-> "NO" ]

\* <<stale fields present, isinstance(state, dict)>>
Shapes == { << FALSE, TRUE >>, << TRUE, TRUE >>, << TRUE, FALSE >> }

NoCall == << A("no_call", 0) >>

NoRequest ==
    [via |-> "graph", source_language |-> NoneStr, target_language |-> NoneStr,
     text |-> None]

NoResponse ==
    [made |-> FALSE, source_language |-> NoneStr, target_language |-> NoneStr,
     translated_text |-> None]

InitGraph ==
    \E t \in Texts, lp \in LangPairs, c \in Counters, h \in Hints, sh \in Shapes :
        /\ state = Merge(Merge(Merge(IF sh[1] THEN Stale ELSE Empty,
                                     [text |-> t, source_language |-> lp[1],
                                      target_language |-> lp[2]]), c), h)
        /\ is_dict = sh[2]
        /\ request = NoRequest

\* TranslationService.translate up to self.graph.run(state)
InitService ==
    \E t \in Texts, lp \in LangPairs :
        /\ state = [source_language |-> lp[1], target_language |-> lp[2], text |-> t,
                    retry_count |-> 0, max_retry_count |-> 1]
        /\ is_dict = TRUE
        /\ request = [via |-> "service", source_language |-> lp[1],
                      target_language |-> lp[2], text |-> t]

\* the node objects of _build_graph after __init__: the five nodes that call
\* the capability hold their client, the others hold nothing
StageInstances ==
    [node \in {"normalize", "safeguard_classify", "safeguard_decision", "safeguard_fail",
               "translate", "quality_check", "retry_gate", "retry_translate", "response"} |->
        IF node \in {"normalize", "safeguard_classify", "translate", "quality_check",
                     "retry_translate"}
        THEN [llm |-> "ChatGoogleGenerativeAI"]
        ELSE Empty]

Init ==
    /\ InitGraph \/ InitService
    /\ instances = StageInstances
    /\ runs = << >>
    /\ initial = state
    /\ pc = "normalize"
    /\ trace = << >>
    /\ calls = << >>
    /\ last_resp = NoCall
    /\ response = NoResponse

-----------------------------------------------------------------------------
(* TranslateGraph.run: one action per node, followed by its outgoing edge *)

\* the capability's outcomes for a node that makes the call iff invokes
Outcomes(invokes, responses) == IF invokes THEN responses ELSE { NoCall }

Executed(node, kind, resp) ==
    /\ trace' = Append(trace, node)
    /\ calls' = IF resp = NoCall THEN calls ELSE Append(calls, kind)
    /\ last_resp' = resp
    /\ UNCHANGED <<is_dict, initial, request, response, instances, runs>>

\* a plausible slip: _detect_language without its try/except
Normalize_propagates ==
    /\ pc = "normalize"
    /\ \E resp \in Outcomes(normalize_detects(state), DetectResponses) :
        /\ IF resp = Raised
           THEN state' = state /\ pc' = "__raised__"
           ELSE state' = NormalizeInputNode_run(state, resp)
                /\ pc' = "safeguard_classify"
        /\ Executed("normalize", "detect", resp)

Normalize ==
    /\ pc = "normalize"
    /\ \E resp \in Outcomes(normalize_detects(state), DetectResponses) :
        /\ state' = NormalizeInputNode_run(state, resp)
        /\ pc' = "safeguard_classify"
        /\ Executed("normalize", "detect", resp)

SafeguardClassify ==
    /\ pc = "safeguard_classify"
    /\ \E resp \in Outcomes(classify_invokes(state), ClassifyResponses) :
        /\ IF resp = Raised
           THEN state' = state /\ pc' = "__raised__"
           ELSE state' = SafeguardClassifyNode_run(state, resp)
                /\ pc' = "safeguard_decision"
        /\ Executed("safeguard_classify", "classify", resp)

SafeguardDecision ==
    /\ pc = "safeguard_decision"
    /\ state' = SafeguardDecisionNode_run(state)
    /\ pc' = route_after_safeguard(state')
    /\ Executed("safeguard_decision", "none", NoCall)

SafeguardFail ==
    /\ pc = "safeguard_fail"
    /\ state' = SafeguardFailResponseNode_run(state, is_dict)
    /\ pc' = "response"
    /\ Executed("safeguard_fail", "none", NoCall)

\* a plausible slip: the edge from translate skips the quality check
Translate_skips_check ==
    /\ pc = "translate"
    /\ \E resp \in Outcomes(~text_is_empty(state), TranslateResponses) :
        /\ IF resp = Raised
           THEN state' = state /\ pc' = "__raised__"
           ELSE state' = TranslateNode_run(state, resp) /\ pc' = "retry_gate"
        /\ Executed("translate", "translate", resp)

Translate ==
    /\ pc = "translate"
    /\ \E resp \in Outcomes(~text_is_empty(state), TranslateResponses) :
        /\ IF resp = Raised
           THEN state' = state /\ pc' = "__raised__"
           ELSE state' = TranslateNode_run(state, resp) /\ pc' = "quality_check"
        /\ Executed("translate", "translate", resp)

\* a plausible slip: a failed judgment is taken for an empty answer
QualityCheck_recovers ==
    /\ pc = "quality_check"
    /\ \E resp \in Outcomes(quality_check_invokes(state), JudgeResponses) :
        /\ state' = QualityCheckNode_run(state, IF resp = Raised THEN << >> ELSE resp)
        /\ pc' = "retry_gate"
        /\ Executed("quality_check", "judge", resp)

QualityCheck ==
    /\ pc = "quality_check"
    /\ \E resp \in Outcomes(quality_check_invokes(state), JudgeResponses) :
        /\ IF resp = Raised
           THEN state' = state /\ pc' = "__raised__"
           ELSE state' = QualityCheckNode_run(state, resp) /\ pc' = "retry_gate"
        /\ Executed("quality_check", "judge", resp)

RetryGate ==
    /\ pc = "retry_gate"
    /\ state' = RetryGateNode_run(state)
    /\ pc' = route_after_retry_gate(state')
    /\ Executed("retry_gate", "none", NoCall)

RetryTranslate ==
    /\ pc = "retry_translate"
    /\ \E resp \in Outcomes(~text_is_empty(state), RetryResponses) :
        /\ IF resp = Raised
           THEN state' = Set(state, "retry_count", Get(state, "retry_count", 0) + 1)
                /\ pc' = "__raised__"
           ELSE state' = RetryTranslateNode_run(state, resp) /\ pc' = "quality_check"
        /\ Executed("retry_translate", "retry_translate", resp)

Response ==
    /\ pc = "response"
    /\ state' = ResponseNode_run(state, is_dict)
    /\ pc' = "__end__"
    /\ Executed("response", "none", NoCall)

\* TranslationService.translate after self.graph.run(state) returned
ServiceReturn ==
    /\ pc = "__end__"
    /\ request.via = "service"
    /\ response' =
           [made |-> TRUE,
            source_language |->
                or_str(Get(state, "source_language", NoneStr), request.source_language),
            target_language |->
                or_str(Get(state, "target_language", NoneStr), request.target_language),
            translated_text |-> Get(state, "translated_text", << >>)]
    /\ pc' = "__returned__"
    /\ UNCHANGED <<state, is_dict, initial, trace, calls, last_resp, request,
                   instances, runs>>

Next ==
    \/ Normalize
    \/ SafeguardClassify
    \/ SafeguardDecision
    \/ SafeguardFail
    \/ Translate
    \/ QualityCheck
    \/ RetryGate
    \/ RetryTranslate
    \/ Response
    \/ ServiceReturn

Spec == Init /\ [][Next]_vars

-----------------------------------------------------------------------------
(* Vocabulary of the properties *)

Count(seq, x) == Cardinality({i \in 1..Len(seq) : seq[i] = x})

LastNode == IF trace = << >> THEN "none" ELSE trace[Len(trace)]

\* node was the last to execute and it returned
JustRan(node) == LastNode = node /\ pc # "__raised__"

\* graph.add_node: the nodes the engine can be asked to execute; each has an
\* action that is enabled whenever pc names it
GraphNodes ==
    {"normalize", "safeguard_classify", "safeguard_decision", "safeguard_fail",
     "translate", "quality_check", "retry_gate", "retry_translate", "response"}

Ended == pc \in {"__end__", "__returned__"}

Terminal == Ended \/ pc = "__raised__"

\* SafeguardClassify has returned
Classified == pc = "safeguard_decision" \/ Count(trace, "safeguard_decision") > 0

\* the retry bound a record stands for
EffectiveBound(s) ==
    IF Get(s, "max_retry_count", 0) > 0 THEN Get(s, "max_retry_count", 0) ELSE 1

\* the number of times trace holds QualityCheck, RetryGate, RetryTranslate, QualityCheck
CycleTraversals ==
    Cardinality({i \in 1..Len(trace) :
        /\ i + 3 <= Len(trace)
        /\ SubSeq(trace, i, i + 3) =
               <<"quality_check", "retry_gate", "retry_translate", "quality_check">>})

HasKind(t, kinds) == \E i \in 1..Len(t) : t[i].k \in kinds

OnlyWhitespace(t) == \A i \in 1..Len(t) : t[i].k \in {"sp", "nl"}

IsPrefix(p, q) == Len(p) <= Len(q) /\ SubSeq(q, 1, Len(p)) = p

BlockedPath ==
    <<"normalize", "safeguard_classify", "safeguard_decision", "safeguard_fail", "response">>

EmptyPath ==
    <<"normalize", "safeguard_classify", "safeguard_decision", "translate",
      "quality_check", "retry_gate", "response">>

TranslatePathNodes == {"translate", "quality_check", "retry_gate", "retry_translate"}

-----------------------------------------------------------------------------
(* Several runs over one compiled graph.  A run is a record: its state      *)
(* record, the node due, and the capability's answers to its calls in the   *)
(* order the run makes them (script; pos is the next answer).               *)

\* whether the node due reaches its capability call
StageInvokes(node, s) ==
    CASE node = "normalize" -> normalize_detects(s)
      [] node = "safeguard_classify" -> classify_invokes(s)
      [] node \in {"translate", "retry_translate"} -> ~text_is_empty(s)
      [] node = "quality_check" -> quality_check_invokes(s)
      [] OTHER -> FALSE

\* a plausible slip: RetryTranslateNode counts the retries on the node object
StageRun_counts_on_self(node, self, s, dict, resp) ==
    IF node = "retry_translate"
    THEN LET n == Get(self, "retry_count", 0) + 1
         IN  [self |-> Set(self, "retry_count", n),
              state |-> Set(RetryTranslateNode_run(s, resp), "retry_count", n)]
    ELSE [self |-> self,
          state |-> CASE node = "normalize" -> NormalizeInputNode_run(s, resp)
                      [] node = "safeguard_classify" -> SafeguardClassifyNode_run(s, resp)
                      [] node = "safeguard_decision" -> SafeguardDecisionNode_run(s)
                      [] node = "safeguard_fail" -> SafeguardFailResponseNode_run(s, dict)
                      [] node = "translate" -> TranslateNode_run(s, resp)
                      [] node = "quality_check" -> QualityCheckNode_run(s, resp)
                      [] node = "retry_gate" -> RetryGateNode_run(s)
                      [] node = "response" -> ResponseNode_run(s, dict)]

\* node.run(state) of the node object self: the record it returns and the
\* attributes of the object afterwards (no run() assigns to self)
StageRun(node, self, s, dict, resp) ==
    [self |-> self,
     state |-> CASE node = "normalize" -> NormalizeInputNode_run(s, resp)
                 [] node = "safeguard_classify" -> SafeguardClassifyNode_run(s, resp)
                 [] node = "safeguard_decision" -> SafeguardDecisionNode_run(s)
                 [] node = "safeguard_fail" -> SafeguardFailResponseNode_run(s, dict)
                 [] node = "translate" -> TranslateNode_run(s, resp)
                 [] node = "quality_check" -> QualityCheckNode_run(s, resp)
                 [] node = "retry_gate" -> RetryGateNode_run(s)
                 [] node = "retry_translate" -> RetryTranslateNode_run(s, resp)
                 [] node = "response" -> ResponseNode_run(s, dict)]

\* the edge out of node, s being the record the node returned
EdgeAfter(node, s) ==
    CASE node = "normalize" -> "safeguard_classify"
      [] node = "safeguard_classify" -> "safeguard_decision"
      [] node = "safeguard_decision" -> route_after_safeguard(s)
      [] node = "safeguard_fail" -> "response"
      [] node = "translate" -> "quality_check"
      [] node = "quality_check" -> "retry_gate"
      [] node = "retry_gate" -> route_after_retry_gate(s)
      [] node = "retry_translate" -> "quality_check"
      [] node = "response" -> "__end__"

\* one node of run r executed on the node objects insts
RunStep(r, insts) ==
    LET node == r.pc
        invokes == StageInvokes(node, r.state)
        resp == IF ~invokes THEN NoCall
                ELSE IF r.pos <= Len(r.script) THEN r.script[r.pos] ELSE << >>
        out == StageRun(node, insts[node], r.state, r.is_dict, resp)
        pos == IF invokes THEN r.pos + 1 ELSE r.pos
    IN  IF resp = Raised /\ node # "normalize"
        THEN [run |-> [r EXCEPT !.pc = "__raised__", !.pos = pos,
                                !.state = IF node = "retry_translate"
                                          THEN Set(r.state, "retry_count",
                                                   Get(r.state, "retry_count", 0) + 1)
                                          ELSE r.state],
              instances |-> insts]
        ELSE [run |-> [r EXCEPT !.state = out.state, !.pos = pos,
                                !.pc = EdgeAfter(node, out.state)],
              instances |-> [insts EXCEPT ![node] = out.self]]

\* TranslateGraph.run of r with no other run on the node objects insts
RECURSIVE RunAlone(_, _)
RunAlone(r, insts) ==
    IF r.pc \notin GraphNodes THEN r
    ELSE LET next == RunStep(r, insts) IN RunAlone(next.run, next.instances)

\* the records and the scripts of the runs that share the graph
SharedRecords ==
    { << [text |-> << A("plain", 5) >>, source_language |-> NoneStr,
          target_language |-> "en", retry_count |-> 0, max_retry_count |-> 1], TRUE >>,
      << [text |-> << A("harm", 4) >>, source_language |-> "KR",
          target_language |-> " EN-us "], TRUE >>,
      << Merge(Stale, [text |-> << A("sp", 2), A("plain", 5) >>,
                       source_language |-> "k0", target_language |-> NoneStr]), FALSE >> }

SharedScripts ==
    { << W("json_language_ko"), W("PASS"), << A("tr1", 4) >>, W("NO"),
         << A("tr2", 4) >>, W("YES") >>,
      << Raised, W("because"), << >>, << A("tr2", 4) >>, W("NO") >>,
      << W("because"), W("HARMFUL") >>,
      << W("json_language_ko"), W("PASS"), << A("tr1", 4) >>, Raised >> }

StartOfRun(record, dict, script) ==
    [state |-> record, is_dict |-> dict, pc |-> "normalize", initial |-> record,
     script |-> script, pos |-> 1]

InitShared ==
    /\ \E r1 \in SharedRecords, r2 \in SharedRecords,
          s1 \in SharedScripts, s2 \in SharedScripts :
           runs = << StartOfRun(r1[1], r1[2], s1), StartOfRun(r2[1], r2[2], s2) >>
    /\ instances = StageInstances
    /\ state = Empty
    /\ is_dict = TRUE
    /\ initial = Empty
    /\ pc = "__shared__"
    /\ trace = << >>
    /\ calls = << >>
    /\ last_resp = NoCall
    /\ request = NoRequest
    /\ response = NoResponse

\* the engine executes the node due in one of the runs
StepRun ==
    \E i \in 1..Len(runs) :
        /\ runs[i].pc \in GraphNodes
        /\ LET next == RunStep(runs[i], instances)
           IN  /\ runs' = [runs EXCEPT ![i] = next.run]
               /\ instances' = next.instances
        /\ UNCHANGED <<state, is_dict, pc, initial, trace, calls, last_resp, request,
                       response>>

NextShared == StepRun

SpecShared == InitShared /\ [][NextShared]_vars

-----------------------------------------------------------------------------
(* Properties *)

\* C1: in a run whose retry_count starts at 0, RetryTranslate executes at most
\* B times, B being max_retry_count if it is > 0 and 1 otherwise, whatever the
\* capability answers; a run started by the service layer goes round the
\* retry cycle at most once.
C1_RetryBound ==
    /\ Get(initial, "retry_count", 0) = 0
           => Count(trace, "retry_translate") <= EffectiveBound(initial)
    /\ request.via = "service"
           => Count(trace, "retry_translate") <= 1 /\ CycleTraversals <= 1

C1_Witness ==
    /\ pc = "__end__"
    /\ Get(initial, "retry_count", 0) = 0
    /\ Get(initial, "max_retry_count", 0) = 2
    /\ Count(trace, "retry_translate") = 2
    /\ CycleTraversals = 2

\* C2: a run terminates: until it has ended or a capability call has raised, a
\* node of the graph is due, and the run is never longer than seven nodes plus
\* three per permitted retry; a node raises only because the capability did; a
\* run that ended executed Response exactly once, as its last node, and its
\* status is OK or ERROR.
C2_Terminates ==
    /\ ~Terminal => pc \in GraphNodes
    /\ Len(trace) <= 7 + 3 * EffectiveBound(initial)
    /\ pc = "__raised__" => last_resp = Raised
    /\ Ended => /\ Count(trace, "response") = 1
                /\ LastNode = "response"
                /\ Get(state, "status", NoneStr) \in {"OK", "ERROR"}

C2_Witness ==
    /\ pc = "__end__"
    /\ Len(trace) = 7 + 3 * 2
    /\ Get(state, "status", NoneStr) = "OK"
    /\ Get(state, "qc_passed", NoneStr) = "NO"

\* C3: retry_count never decreases; RetryTranslate adds exactly 1 to it, also
\* on empty text; no other node changes it.
C3_RetryCountSteps ==
    /\ [][ IF pc = "retry_translate"
           THEN Get(state', "retry_count", 0) = Get(state, "retry_count", 0) + 1
           ELSE /\ Get(state', "retry_count", 0) = Get(state, "retry_count", 0)
                /\ ("retry_count" \in DOMAIN state') = ("retry_count" \in DOMAIN state)
         ]_vars
    /\ [](Get(RetryTranslateNode_run(Set(state, "text", << >>), NoCall), "retry_count", 0)
              = Get(state, "retry_count", 0) + 1)

C3_Witness ==
    /\ JustRan("retry_translate")
    /\ Count(trace, "retry_translate") = 2
    /\ Get(state, "retry_count", 0) = Get(initial, "retry_count", 0) + 2

\* C4: after SafeguardDecision the run goes to Translate iff safeguard_label
\* is PASS and to SafeguardFail otherwise; a run labelled PII, HARMFUL or
\* PROMPT_INJECTION executes none of Translate, QualityCheck, RetryGate and
\* RetryTranslate, and its nodes are Normalize, SafeguardClassify,
\* SafeguardDecision, SafeguardFail, Response.
C4_RouterA ==
    /\ JustRan("safeguard_decision")
           => /\ pc \in {"translate", "safeguard_fail"}
              /\ pc = "translate" <=> state["safeguard_label"] = "PASS"
    /\ (Classified /\ state["safeguard_label"] \in {"PII", "HARMFUL", "PROMPT_INJECTION"})
           => /\ \A n \in TranslatePathNodes : Count(trace, n) = 0
              /\ IsPrefix(trace, BlockedPath)
              /\ Ended => trace = BlockedPath

C4_Witness ==
    /\ pc = "__end__"
    /\ state["safeguard_label"] = "PROMPT_INJECTION"
    /\ trace = BlockedPath

\* C5: once SafeguardClassify has returned, safeguard_label is present and is
\* one of PASS, PII, HARMFUL, PROMPT_INJECTION, up to the final state.
C5_LabelAllowed ==
    Classified => /\ "safeguard_label" \in DOMAIN state
                  /\ state["safeguard_label"] \in {"PASS", "PII", "HARMFUL", "PROMPT_INJECTION"}

C5_Witness ==
    /\ JustRan("safeguard_classify")
    /\ last_resp = W("HARMFUL") \o W(".")
    /\ Get(state, "has_sensitive_hint", FALSE)
    /\ state["safeguard_label"] = "PII"

\* C6: a non-empty text holding a national-ID, email or phone shape is
\* labelled PII by SafeguardClassify with no capability call, whatever
\* has_sensitive_hint is and whatever other patterns the text matches.
C6_ForcedPII ==
    (LastNode = "safeguard_classify" /\ HasKind(state["text"], {"rrn", "email", "phone"}))
        => /\ state["safeguard_label"] = "PII"
           /\ last_resp = NoCall
           /\ Count(calls, "classify") = 0

C6_Witness ==
    /\ JustRan("safeguard_classify")
    /\ HasKind(state["text"], {"phone"})
    /\ HasKind(state["text"], {"inj"})
    /\ HasKind(state["text"], {"prof"})
    /\ HasKind(state["text"], {"harm"})
    /\ Get(state, "has_sensitive_hint", FALSE)
    /\ state["safeguard_label"] = "PII"

\* C7: SafeguardClassify decides by the first of: empty text -> PASS, forced
\* PII -> PII, injection pattern -> PROMPT_INJECTION, profanity or harmful
\* pattern -> HARMFUL; the capability is called for classification exactly
\* when none of the four applies.
C7_Precedence ==
    LastNode = "safeguard_classify" =>
        LET t == state["text"]
            rule == IF OnlyWhitespace(t) THEN "PASS"
                    ELSE IF HasKind(t, {"rrn", "email", "phone"}) THEN "PII"
                    ELSE IF HasKind(t, {"inj"}) THEN "PROMPT_INJECTION"
                    ELSE IF HasKind(t, {"prof", "harm"}) THEN "HARMFUL"
                    ELSE "none"
        IN  /\ rule # "none" => state["safeguard_label"] = rule
            /\ rule = "none" <=> last_resp # NoCall

C7_Witness ==
    /\ JustRan("safeguard_classify")
    /\ HasKind(state["text"], {"inj"})
    /\ HasKind(state["text"], {"harm"})
    /\ ~HasKind(state["text"], {"rrn", "email", "phone"})
    /\ state["safeguard_label"] = "PROMPT_INJECTION"
    /\ last_resp = NoCall

\* C8: when the fallback classifier answered and the token its answer
\* normalizes to is not an allowed label, safeguard_label is the prior (PII,
\* from has_sensitive_hint) if there is one and PASS otherwise.
C8_Fallback ==
    (/\ JustRan("safeguard_classify")
     /\ last_resp # NoCall
     /\ ~(\E l \in {"PASS", "PII", "HARMFUL", "PROMPT_INJECTION"} :
              label_token(last_resp) = W(l)))
        => state["safeguard_label"] =
               IF Get(state, "has_sensitive_hint", FALSE) THEN "PII" ELSE "PASS"

C8_Witness ==
    /\ JustRan("safeguard_classify")
    /\ last_resp = W("because")
    /\ Get(state, "has_sensitive_hint", FALSE)
    /\ state["safeguard_label"] = "PII"

\* C9: in the final state of a run whose label is not PASS, status is ERROR,
\* success is false and translated_text and error_message are both the
\* catalog message of the label; in the final state of a PASS run status is
\* OK and success is true, also when the caller's record held an
\* error_message.
C9_FinalStatus ==
    Ended =>
        IF state["safeguard_label"] # "PASS"
        THEN /\ state["status"] = "ERROR"
             /\ state["success"] = FALSE
             /\ state["translated_text"] = SafeguardMessage(state["safeguard_label"])
             /\ state["error_message"] = SafeguardMessage(state["safeguard_label"])
        ELSE /\ state["status"] = "OK"
             /\ state["success"] = TRUE

C9_Witness ==
    /\ pc = "__end__"
    /\ state["safeguard_label"] = "HARMFUL"
    /\ "error_message" \in DOMAIN initial
    /\ initial["error_message"] # SafeguardMessage("HARMFUL")
    /\ state["status"] = "ERROR"
    /\ Count(trace, "safeguard_fail") = 1

\* C10: a run on empty or whitespace-only text makes no capability call,
\* gets qc_passed = YES from QualityCheck, never executes RetryTranslate and
\* ends with status OK and translated_text "", whatever else the record held.
C10_EmptyText ==
    OnlyWhitespace(or_empty(Get(initial, "text", << >>))) =>
        /\ calls = << >>
        /\ pc # "__raised__"
        /\ IsPrefix(trace, EmptyPath)
        /\ ~Terminal => pc \in GraphNodes
        /\ LastNode = "quality_check" => state["qc_passed"] = "YES"
        /\ Ended => /\ trace = EmptyPath
                    /\ state["status"] = "OK"
                    /\ state["translated_text"] = << >>

C10_Witness ==
    /\ pc = "__end__"
    /\ initial["text"] = << A("sp", 2), A("nl", 1) >>
    /\ "translated_text" \in DOMAIN initial
    /\ "error_message" \in DOMAIN initial
    /\ Get(initial, "has_sensitive_hint", FALSE)
    /\ state["status"] = "OK"

RetryOncePath ==
    <<"normalize", "safeguard_classify", "safeguard_decision", "translate",
      "quality_check", "retry_gate", "retry_translate", "quality_check", "retry_gate",
      "response">>

\* C11: in a run whose supplied max_retry_count is absent, 0 or negative and
\* whose retry_count starts at 0, every execution of RetryGate leaves
\* max_retry_count = 1 in the record, a failed quality check is followed by
\* RetryTranslate the first time and by Response the second time, and a run
\* whose quality checks all failed executed RetryTranslate exactly once.
C11_DefaultBound ==
    (Get(initial, "max_retry_count", 0) <= 0 /\ Get(initial, "retry_count", 0) = 0) =>
        /\ JustRan("retry_gate")
               => /\ "max_retry_count" \in DOMAIN state
                  /\ state["max_retry_count"] = 1
        /\ (JustRan("retry_gate") /\ state["qc_passed"] = "NO")
               => pc = IF Count(trace, "retry_translate") = 0
                       THEN "retry_translate" ELSE "response"
        /\ (Ended /\ Count(trace, "quality_check") > 0 /\ state["qc_passed"] = "NO")
               => trace = RetryOncePath

C11_Witness ==
    /\ pc = "__end__"
    /\ "max_retry_count" \notin DOMAIN initial
    /\ ~is_dict
    /\ trace = RetryOncePath
    /\ state["qc_passed"] = "NO"
    /\ state["max_retry_count"] = 1

\* C12: in a run with retry_count = 0 and max_retry_count = N >= 1 at the
\* start, a failed quality check is followed by RetryTranslate while fewer
\* than N retries were made and by Response after that; a run that ended with
\* every quality check failed executed RetryTranslate N times and QualityCheck
\* N + 1 times, Response last, and ends with qc_passed = NO and retry_count = N.
C12_ExactRetries ==
    (Get(initial, "retry_count", 0) = 0 /\ Get(initial, "max_retry_count", 0) >= 1) =>
        LET N == initial["max_retry_count"]
        IN  /\ (JustRan("retry_gate") /\ state["qc_passed"] = "NO")
                   => pc = IF Count(trace, "retry_translate") < N
                           THEN "retry_translate" ELSE "response"
            /\ (Ended /\ Count(trace, "quality_check") > 0 /\ state["qc_passed"] = "NO")
                   => /\ Count(trace, "retry_translate") = N
                      /\ Count(trace, "quality_check") = N + 1
                      /\ LastNode = "response"
                      /\ state["retry_count"] = N

C12_Witness ==
    /\ pc = "__end__"
    /\ Get(initial, "retry_count", 1) = 0
    /\ Get(initial, "max_retry_count", 0) = MaxRetry
    /\ Count(trace, "retry_translate") = MaxRetry
    /\ Count(trace, "quality_check") = MaxRetry + 1
    /\ state["qc_passed"] = "NO"
    /\ state["retry_count"] = MaxRetry

\* a quality check of this run said YES
YesVerdict ==
    /\ Count(trace, "quality_check") > 0
    /\ pc # "__raised__"
    /\ Get(state, "qc_passed", NoneStr) = "YES"

\* C13: RetryGate executed on qc_passed = YES is followed by Response; once
\* a quality check said YES only RetryGate and Response execute, and
\* retry_count and the verdict keep their values.
C13_YesStopsRetries ==
    /\ []((JustRan("retry_gate") /\ state["qc_passed"] = "YES") => pc = "response")
    /\ [][ YesVerdict =>
               /\ trace' = trace \/ trace'[Len(trace')] \in {"retry_gate", "response"}
               /\ Count(trace', "retry_translate") = Count(trace, "retry_translate")
               /\ Get(state', "retry_count", 0) = Get(state, "retry_count", 0)
               /\ Get(state', "qc_passed", NoneStr) = "YES"
         ]_vars

C13_Witness ==
    /\ pc = "__end__"
    /\ Get(initial, "retry_count", 1) = 0
    /\ Get(initial, "max_retry_count", 0) = 2
    /\ Count(trace, "retry_translate") = 1
    /\ state["qc_passed"] = "YES"
    /\ state["retry_count"] = 1

Defaulted == Get(initial, "max_retry_count", 0) <= 0 /\ Count(trace, "retry_gate") > 0

\* C15 as stated: once RetryGate has defaulted max_retry_count, the record
\* holds max_retry_count = 1 for the remainder of the run, Response included.
C15_StableAfterDefault ==
    Defaulted => /\ "max_retry_count" \in DOMAIN state
                 /\ state["max_retry_count"] = 1

\* C15, amended: once RetryGate has defaulted max_retry_count, the record
\* holds max_retry_count = 1 across every later RetryTranslate, QualityCheck
\* and RetryGate execution; Response writes no other value: it leaves the
\* field at 1 when the record is not a mapping and removes it from a mapping.
C15_StableUntilResponse ==
    Defaulted =>
        IF Count(trace, "response") > 0 /\ is_dict
        THEN "max_retry_count" \notin DOMAIN state
        ELSE /\ "max_retry_count" \in DOMAIN state
             /\ state["max_retry_count"] = 1

C15_Witness ==
    /\ pc = "__end__"
    /\ is_dict
    /\ Get(initial, "max_retry_count", 1) = 0
    /\ Count(trace, "retry_gate") = 2
    /\ "max_retry_count" \notin DOMAIN state
    /\ state["retry_count"] = 1

\* C16: when language detection fails in Normalize (the capability raises,
\* or answers something that is not JSON, has no language or holds a
\* malformed code), Normalize returns, source_language is None and
\* SafeguardClassify is next; a run never fails in Normalize.
C16_DetectionBestEffort ==
    /\ pc = "__raised__" => LastNode # "normalize"
    /\ (LastNode = "normalize"
        /\ last_resp \in { Raised, W("because"), W("json_language_null"),
                           W("json_language_k0") })
           => /\ pc = "safeguard_classify"
              /\ "source_language" \in DOMAIN state
              /\ state["source_language"] = NoneStr

C16_Witness ==
    /\ pc = "safeguard_classify"
    /\ LastNode = "normalize"
    /\ last_resp = Raised
    /\ calls = << "detect" >>
    /\ state["source_language"] = NoneStr

\* C17: when the capability raises in SafeguardClassify, Translate,
\* RetryTranslate or QualityCheck the run has failed at that node: no node
\* executes after it, Response has not executed, the record has no status
\* and the service has made no response.
C17_CapabilityFailureFatal ==
    /\ []((/\ last_resp = Raised
           /\ LastNode \in {"safeguard_classify", "translate", "retry_translate",
                            "quality_check"})
              => /\ pc = "__raised__"
                 /\ Count(trace, "response") = 0
                 /\ "status" \notin DOMAIN state
                 /\ ~response.made)
    /\ [][pc # "__raised__"]_vars

C17_Witness ==
    /\ pc = "__raised__"
    /\ LastNode = "quality_check"
    /\ Count(trace, "retry_translate") = 1
    /\ last_resp = Raised
    /\ request.via = "service"

\* the caller's record holds a malformed language code
MalformedSource == Get(initial, "source_language", NoneStr) = "k0"

MalformedTarget == Get(initial, "target_language", NoneStr) = "e_n"

\* the text of the caller after strip and the two whitespace substitutions
InitialTextLength ==
    len(RE_MULTI_NEWLINE_sub(RE_MULTI_SPACE_sub(strip(or_empty(Get(initial, "text", << >>))))))

\* C18 as stated: after Normalize a malformed language code is cleared, a
\* warning_message is recorded for it and the run has not failed.
C18_MalformedCodeWarned ==
    (LastNode = "normalize" /\ (MalformedSource \/ MalformedTarget))
        => /\ pc = "safeguard_classify"
           /\ MalformedSource => state["source_language"] # "k0"
           /\ MalformedTarget => state["target_language"] = NoneStr
           /\ "warning_message" \in DOMAIN state

\* C18, amended: Normalize clears a malformed source_language or
\* target_language (source_language is then None or the canonical code that
\* detection gave), no later stage sees the malformed code, the run does not
\* fail, and no warning_message is recorded for the correction:
\* warning_message is written only when the text was truncated.
C18_MalformedCodeCleared ==
    /\ LastNode = "normalize" => pc = "safeguard_classify"
    /\ (Count(trace, "normalize") > 0 /\ MalformedSource)
           => Get(state, "source_language", NoneStr) \in {NoneStr, "ko"}
    /\ (Count(trace, "normalize") > 0 /\ MalformedTarget)
           => Get(state, "target_language", NoneStr) = NoneStr
    /\ (LastNode = "normalize" /\ (MalformedSource \/ MalformedTarget)
        /\ InitialTextLength <= MAX_TEXT_CHARS)
           => "warning_message" \notin DOMAIN state

C18_Witness ==
    /\ pc = "safeguard_classify"
    /\ LastNode = "normalize"
    /\ MalformedSource
    /\ last_resp = W("json_language_k0")
    /\ state["source_language"] = NoneStr
    /\ "warning_message" \notin DOMAIN state

\* C19: after Normalize the text is at most MAX_TEXT_CHARS long, and the
\* record holds a warning_message exactly when the text, after strip and the
\* whitespace substitutions, was longer than MAX_TEXT_CHARS; it is then
\* exactly MAX_TEXT_CHARS long.
C19_Truncation ==
    LastNode = "normalize" =>
        /\ len(state["text"]) <= MAX_TEXT_CHARS
        /\ ("warning_message" \in DOMAIN state) <=> (InitialTextLength > MAX_TEXT_CHARS)
        /\ InitialTextLength > MAX_TEXT_CHARS => len(state["text"]) = MAX_TEXT_CHARS
        /\ InitialTextLength <= MAX_TEXT_CHARS => len(state["text"]) = InitialTextLength

C19_Witness ==
    /\ LastNode = "normalize"
    /\ initial["text"] = << A("plain", MAX_TEXT_CHARS - 1), A("sp", 3), A("plain", 5) >>
    /\ state["text"] = << A("plain", MAX_TEXT_CHARS - 1), A("sp", 1) >>
    /\ "warning_message" \in DOMAIN state

\* C20: the response of the service carries the language codes the graph
\* resolved: a request language that Normalize turns into a canonical code is
\* returned as that code; translated_text is that of the final record.
C20_ResponseLanguages ==
    response.made =>
        /\ normalize_lang_code(request.source_language) # NoneStr
               => response.source_language = normalize_lang_code(request.source_language)
        /\ normalize_lang_code(request.target_language) # NoneStr
               => response.target_language = normalize_lang_code(request.target_language)
        /\ response.translated_text = state["translated_text"]

\* C21: once SafeguardFail has executed, the audit entry of the record is
\* the event type, the safeguard label and the length of the text and nothing
\* else, so two blocked runs with one label and one text length (the texts
\* "harm" and "prof" of length 4) have the same entry.
C21_AuditEntry ==
    Count(trace, "safeguard_fail") > 0 =>
        /\ "audit_log" \in DOMAIN state
        /\ state["audit_log"] = [event |-> "SAFEGUARD_BLOCK",
                                 label |-> state["safeguard_label"],
                                 text_len |-> len(state["text"])]

C21_Witness ==
    /\ pc = "__end__"
    /\ initial["text"] = << A("prof", 4) >>
    /\ state["text"] # << A("harm", 4) >>
    /\ state["audit_log"] = [event |-> "SAFEGUARD_BLOCK", label |-> "HARMFUL", text_len |-> 4]

\* C23: in the sequence of executed nodes Translate and RetryTranslate are
\* followed by QualityCheck and then RetryGate, and Response comes directly
\* after RetryGate or SafeguardFail; QualityCheck, RetryGate and the Response
\* that follows RetryGate leave translated_text as the last translation stage
\* wrote it, and that Response leaves qc_passed as the last check wrote it.
C23_CheckedBeforeResponse ==
    /\ [](\A i \in 1..Len(trace) :
             /\ trace[i] \in {"translate", "retry_translate"}
                    => /\ i + 1 <= Len(trace) => trace[i + 1] = "quality_check"
                       /\ i + 2 <= Len(trace) => trace[i + 2] = "retry_gate"
             /\ trace[i] = "response"
                    => i > 1 /\ trace[i - 1] \in {"retry_gate", "safeguard_fail"})
    /\ [][ /\ pc \in {"quality_check", "retry_gate"}
                  => state'["translated_text"] = state["translated_text"]
           /\ (pc = "response" /\ LastNode = "retry_gate")
                  => /\ state'["translated_text"] = state["translated_text"]
                     /\ state'["qc_passed"] = state["qc_passed"]
         ]_vars

C23_Witness ==
    /\ pc = "__end__"
    /\ Count(trace, "retry_translate") = 1
    /\ Count(trace, "quality_check") = 2
    /\ state["qc_passed"] = "YES"
    /\ state["translated_text"] = << A("tr2", 4) >>

\* C24: an execution of RetryGate sets retry_allowed = FALSE and
\* retry_reason = None when qc_passed is YES; otherwise, with max_retry_count
\* taken as 1 when it is absent or <= 0, retry_allowed = TRUE and
\* retry_reason = "qc_failed_retry_available" when retry_count is below it and
\* retry_allowed = FALSE and retry_reason = "max_retry_reached" when not; it
\* writes max_retry_count = 1 only when defaulting and leaves every other
\* field as it was.
C24_GateRecords ==
    [][ pc = "retry_gate" =>
            LET qc == Get(state, "qc_passed", NoneStr)
                rc == Get(state, "retry_count", 0)
                m0 == Get(state, "max_retry_count", 0)
                m == IF m0 <= 0 THEN 1 ELSE m0
                written == {"retry_allowed", "retry_reason"}
                               \cup (IF m0 <= 0 THEN {"max_retry_count"} ELSE {})
            IN  /\ DOMAIN state' = DOMAIN state \cup written
                /\ state'["retry_allowed"] = (qc # "YES" /\ rc < m)
                /\ state'["retry_reason"] =
                       IF qc = "YES" THEN NoneStr
                       ELSE IF rc < m THEN "qc_failed_retry_available"
                       ELSE "max_retry_reached"
                /\ m0 <= 0 => state'["max_retry_count"] = 1
                /\ \A k \in DOMAIN state \ written : state'[k] = state[k]
      ]_vars

C24_Witness ==
    /\ JustRan("retry_gate")
    /\ Count(trace, "retry_translate") = 1
    /\ state["qc_passed"] = "YES"
    /\ state["retry_allowed"] = FALSE
    /\ state["retry_reason"] = NoneStr
    /\ Get(initial, "max_retry_count", 0) = MaxRetry

\* C25: after every execution of Translate and of RetryTranslate that
\* returned, empty text included, last_translation is present and equal to
\* translated_text.
C25_Mirror ==
    (LastNode \in {"translate", "retry_translate"} /\ pc # "__raised__")
        => /\ "last_translation" \in DOMAIN state
           /\ state["last_translation"] = state["translated_text"]

\* C26: QualityCheck on non-empty text and an empty translation sets
\* qc_passed = NO and qc_reason = "empty_translation" and makes no capability
\* call; RetryGate then routes as for any failed check: to RetryTranslate
\* while retry_count is below the bound, to Response after that.
C26_EmptyTranslation ==
    /\ (/\ JustRan("quality_check")
        /\ ~OnlyWhitespace(state["text"])
        /\ OnlyWhitespace(state["translated_text"]))
           => /\ state["qc_passed"] = "NO"
              /\ state["qc_reason"] = "empty_translation"
              /\ last_resp = NoCall
    /\ (JustRan("retry_gate") /\ Get(state, "qc_reason", NoneStr) = "empty_translation")
           => pc = IF Get(state, "retry_count", 0) < EffectiveBound(state)
                   THEN "retry_translate" ELSE "response"

C26_Witness ==
    /\ pc = "__end__"
    /\ Count(trace, "retry_translate") = MaxRetry
    /\ Count(calls, "judge") = 0
    /\ state["qc_passed"] = "NO"
    /\ state["translated_text"] = << >>
    /\ state["retry_count"] = MaxRetry

\* C27: when the fallback classifier answers "label: harmful", "HARMFUL
\* because", "HARMFUL." or a back-ticked PII, safeguard_label is the label
\* named in the answer and not the fallback.
C27_AcceptsWrapped ==
    JustRan("safeguard_classify") =>
        /\ last_resp \in { W("label") \o W(":") \o W("sp") \o W("harmful"),
                           W("HARMFUL") \o W("sp") \o W("because"),
                           W("HARMFUL") \o W(".") }
               => state["safeguard_label"] = "HARMFUL"
        /\ last_resp = W("backtick") \o W("PII") \o W("backtick")
               => state["safeguard_label"] = "PII"

\* C28: after every execution of RetryGate the router has chosen
\* RetryTranslate iff retry_allowed is TRUE and Response iff it is FALSE; the
\* same holds of the node and the router on every record with qc_passed YES,
\* NO, None or absent, retry_count 0..MaxRetry + 1 or absent and
\* max_retry_count -1..MaxRetry + 1 or absent.
C28_GateAgreesWithRouter ==
    /\ JustRan("retry_gate")
           => /\ pc \in {"retry_translate", "response"}
              /\ pc = "retry_translate" <=> state["retry_allowed"] = TRUE
              /\ pc = "response" <=> state["retry_allowed"] = FALSE
    /\ pc = "normalize"
           => \A q \in {Empty, [qc_passed |-> "YES"], [qc_passed |-> "NO"],
                        [qc_passed |-> NoneStr]},
                 r \in {Empty} \cup {[retry_count |-> n] : n \in 0..(MaxRetry + 1)},
                 m \in {Empty} \cup {[max_retry_count |-> n] : n \in (-1)..(MaxRetry + 1)} :
                  LET s == RetryGateNode_run(Merge(Merge(q, r), m))
                  IN  route_after_retry_gate(s) =
                          IF s["retry_allowed"] THEN "retry_translate" ELSE "response"

C28_Witness ==
    /\ JustRan("retry_gate")
    /\ "max_retry_count" \notin DOMAIN initial
    /\ Get(state, "retry_count", 0) = 1
    /\ state["qc_passed"] = "NO"
    /\ state["retry_allowed"] = FALSE
    /\ pc = "response"

\* C29: a run whose last quality check failed ends with status = OK and
\* success = TRUE, and Response leaves translated_text as the failed check saw
\* it; from the first quality check on the record holds no error_message, and
\* no run that executed a quality check ends with status = ERROR.
C29_VerdictNotStatus ==
    /\ [](Count(trace, "quality_check") > 0
              => /\ ~truthy(Get(state, "error_message", None))
                 /\ Ended => /\ state["status"] = "OK"
                             /\ state["success"] = TRUE)
    /\ [][ (pc = "response" /\ Count(trace, "quality_check") > 0
            /\ state["qc_passed"] = "NO")
               => /\ state'["translated_text"] = state["translated_text"]
                  /\ state'["qc_passed"] = "NO"
                  /\ state'["status"] = "OK"
         ]_vars

C29_Witness ==
    /\ pc = "__end__"
    /\ Get(initial, "max_retry_count", 0) = 1
    /\ Count(trace, "retry_translate") = 1
    /\ state["qc_passed"] = "NO"
    /\ state["status"] = "OK"
    /\ state["success"] = TRUE
    /\ state["translated_text"] = << A("tr2", 4) >>

\* C30: whenever SafeguardClassify called the fallback classifier, the text
\* does not match the PII-hint pattern, and the prior (the rule-based label)
\* is PII when has_sensitive_hint is set and None when it is not.
C30_PriorFromHintOnly ==
    (LastNode = "safeguard_classify" /\ last_resp # NoCall)
        => /\ ~RE_PII_HINT_search(state["text"])
           /\ rule_based_label(state["text"], Get(state, "has_sensitive_hint", FALSE))
                  = IF Get(state, "has_sensitive_hint", FALSE) THEN "PII" ELSE NoneStr

C30_Witness ==
    /\ JustRan("safeguard_classify")
    /\ last_resp = << >>
    /\ ~Get(state, "has_sensitive_hint", FALSE)
    /\ state["safeguard_label"] = "PASS"
    /\ rule_based_label(state["text"], FALSE) = NoneStr

\* C22: with two runs on one compiled graph, in every interleaving of their
\* nodes (one run after the other included), the node objects stay as
\* __init__ left them, and a run that has stopped holds the record, and
\* stopped at the place, of the same run executed alone from the same initial
\* record with the same capability answers.
C22_RunsIndependent ==
    /\ instances = StageInstances
    /\ \A i \in 1..Len(runs) :
           runs[i].pc \notin GraphNodes
               => LET alone == RunAlone(StartOfRun(runs[i].initial, runs[i].is_dict,
                                                   runs[i].script), StageInstances)
                  IN  /\ runs[i].state = alone.state
                      /\ runs[i].pc = alone.pc

C22_Witness ==
    /\ Len(runs) = 2
    /\ runs[1].pc = "__end__"
    /\ Get(runs[1].state, "retry_count", 0) = 1
    /\ Get(runs[1].state, "qc_passed", NoneStr) = "YES"
    /\ runs[2].pc = "retry_translate"
    /\ runs[2].initial = runs[1].initial
    /\ runs[2].script # runs[1].script

=============================================================================
